---------------------------- MODULE Spec2Model ----------------------------
(***************************************************************************)
(* Credit-spread engine of rupeetrader-wasm (src/lib.rs): the two exported *)
(* functions bear_call_spread and bull_put_spread.                         *)
(*                                                                         *)
(* Numbers.  Every f64 price of the program (strike, spot, LTP, bid, ask,  *)
(* spread, net credit, profit, loss, breakeven) is held as an integer      *)
(* count of quarter units: 420 stands for 105.0, 13 for 3.25.  Multiples   *)
(* of 0.25 of this size are exact in f64, and so is every product,         *)
(* difference and quotient the program forms from them, so the integer     *)
(* arithmetic below is the program's arithmetic on these inputs.           *)
(* breakeven_percentage is held in hundredths of a percent (729 stands     *)
(* for 7.29), the two decimals the program keeps.                          *)
(*                                                                         *)
(* Option<T> is a sequence of length at most one: None is << >>,           *)
(* Some(v) is << v >>.                                                     *)
(***************************************************************************)
EXTENDS Integers, Sequences, FiniteSets

VARIABLES params,               \* the decoded JsValue, or ParamsErr
          called,               \* "none", "bear_call_spread", "bull_put_spread"
          otm_strikes,          \* local otm_strikes (filter output)
          sorted_otm_strikes,   \* local sorted_otm_strikes
          credit_spread_pairs,  \* local call_/put_credit_spread_pairs
          returned              \* the returned String

vars == <<params, called, otm_strikes, sorted_otm_strikes,
          credit_spread_pairs, returned>>

---------------------------------------------------------------------------
(* Representation of numbers and options *)

None == << >>
Some(v) == << v >>
IsSome(o) == o # None
Unwrap(o) == o[1]

\* n whole currency units, in quarter units
Whole(n) == n * 4

Abs(x) == IF x < 0 THEN -x ELSE x

\* f64::ceil on a quarter-unit value: the least whole number not below it
Ceil(x) == Whole(-((-x) \div Whole(1)))

\* f64::floor of a quotient a / b (b > 0)
FloorDiv(a, b) == a \div b

NIFTY_LOTSIZE == 25


---------------------------------------------------------------------------
(* Decoding: from_value on the parameters, serde_json::from_str on the     *)
(* chain.  A chain is a sequence of JSON objects; strike_price is the      *)
(* required field the inputs may leave out, every Option field may be      *)
(* absent.                                                                 *)

Ok(v) == [ok |-> TRUE, value |-> v]
Err == [ok |-> FALSE, value |-> << >>]

\* from_value::<BearCallSpreadParams>(params)
FromValue(js) ==
    IF js.well_formed
    THEN Ok([optionchain |-> js.optionchain,
             bid_ask_spread |-> js.bid_ask_spread,
             risk_reward_ratio |-> js.risk_reward_ratio,
             breakeven_percentage_sort |-> js.breakeven_percentage_sort])
    ELSE Err

\* a decoder that skips the objects it cannot decode
FromStr_SkipUndecodable(optionchain) ==
    LET good == SelectSeq(optionchain, LAMBDA o : IsSome(o.strike_price))
    IN  Ok([i \in 1..Len(good) |->
              [strike_price |-> Unwrap(good[i].strike_price),
               underlying_spot_price |-> good[i].underlying_spot_price,
               call_options |-> good[i].call_options,
               put_options |-> good[i].put_options]])

\* serde_json::from_str::<Vec<Instrument>>(optionchain): one entry that
\* lacks the required strike_price fails the whole chain
FromStr(optionchain) ==
    IF \E i \in 1..Len(optionchain) : ~IsSome(optionchain[i].strike_price)
    THEN Err
    ELSE Ok([i \in 1..Len(optionchain) |->
               [strike_price |-> Unwrap(optionchain[i].strike_price),
                underlying_spot_price |-> optionchain[i].underlying_spot_price,
                call_options |-> optionchain[i].call_options,
                put_options |-> optionchain[i].put_options]])

---------------------------------------------------------------------------
(* Helpers shared by the two functions (the code repeats them verbatim) *)

\* option.as_ref().and_then(|data| data.market_data.as_ref())
MarketDataOf(option) ==
    IF IsSome(option) THEN Unwrap(option).market_data ELSE None

\* the threshold taken as exclusive
QuoteOk_ExclusiveThreshold(market_data, bid_ask_spread) ==
    /\ IsSome(market_data.ltp)
    /\ \/ ~bid_ask_spread
       \/ /\ IsSome(market_data.bid_price)
          /\ IsSome(market_data.ask_price)
          /\ Abs(Unwrap(market_data.ask_price)
                 - Unwrap(market_data.bid_price)) < Whole(2)

\* the closure of map_or(false, ..): lines 89-97, repeated at 212-220
QuoteOk(market_data, bid_ask_spread) ==
    LET ltp_is_some == IsSome(market_data.ltp)
        bid_ask_diff_ok ==
            IF IsSome(market_data.bid_price) /\ IsSome(market_data.ask_price)
            THEN Abs(Unwrap(market_data.ask_price)
                     - Unwrap(market_data.bid_price)) <= Whole(2)
            ELSE FALSE
    IN  ltp_is_some /\ (~bid_ask_spread \/ bid_ask_diff_ok)

\* .and_then(|market_data| market_data.ltp).unwrap_or(0.0)
LtpOrZero(option) ==
    LET md == MarketDataOf(option)
    IN  IF IsSome(md) /\ IsSome(Unwrap(md).ltp) THEN Unwrap(Unwrap(md).ltp) ELSE 0

\* slice::sort_by with a comparator that orders seq[i] by keys[i],
\* ascending: a stable sort, elements of equal key keep their order
StableSortBy(seq, keys) ==
    LET n == Len(seq)
        Rank(i) == 1 + Cardinality({j \in 1..n : keys[j] < keys[i]})
                     + Cardinality({j \in 1..(i - 1) : keys[j] = keys[i]})
    IN  [q \in 1..n |-> seq[CHOOSE i \in 1..n : Rank(i) = q]]

\* the percentage rounded to the nearest hundredth
BreakevenPercentageTrimmed_Rounded(breakeven, spot) ==
    FloorDiv(2 * Abs(breakeven - spot) * 100 * 100 + spot, 2 * spot)

\* the trimmed breakeven_percentage, in hundredths of a percent:
\* ((|breakeven - spot| / spot * 100.0) * 100.0).floor() / 100.0
BreakevenPercentageTrimmed(breakeven, spot) ==
    FloorDiv(Abs(breakeven - spot) * 100 * 100, spot)

\* the credit added to the width instead of taken from it
MaxLoss_CreditAdded(spread, net_credit) == Ceil(spread + net_credit)

\* (spread - net_credit).ceil()
MaxLoss(spread, net_credit) == Ceil(spread - net_credit)

\* the comparison taken as strict
RiskRewardOk_Strict(spread) == spread.max_loss < 3 * spread.max_profit
\* profit and loss exchanged
RiskRewardOk_Exchanged(spread) == spread.max_profit <= 3 * spread.max_loss

\* the closure of retain: spread.max_loss <= 3.0 * spread.max_profit
RiskRewardOk(spread) == spread.max_loss <= 3 * spread.max_profit

\* a descending sort that does not keep the order of equal elements
SortByBreakevenPercentage_Unstable(credit_spreads) ==
    LET n == Len(credit_spreads)
        Key(k) == credit_spreads[k].breakeven_percentage
        Rank(i) == 1 + Cardinality({j \in 1..n : Key(j) > Key(i)})
                     + Cardinality({j \in (i + 1)..n : Key(j) = Key(i)})
    IN  [q \in 1..n |-> credit_spreads[CHOOSE i \in 1..n : Rank(i) = q]]

\* credit_spreads.sort_by(|a, b| b.breakeven_percentage.partial_cmp(
\* &a.breakeven_percentage)): descending, stable
SortByBreakevenPercentage(credit_spreads) ==
    StableSortBy(credit_spreads,
                 [k \in 1..Len(credit_spreads) |->
                     -credit_spreads[k].breakeven_percentage])

\* lines 164-175, repeated at 287-298: the optional sort, then the
\* optional retain
SortAndRetain(credit_spreads, p) ==
    LET sorted == IF p.breakeven_percentage_sort
                  THEN SortByBreakevenPercentage(credit_spreads)
                  ELSE credit_spreads
    IN  IF p.risk_reward_ratio THEN SelectSeq(sorted, RiskRewardOk) ELSE sorted

\* every (s[i], s[j]) with i < j, by i and then by j
RECURSIVE PairsOf(_)
PairsOf(s) ==
    IF Len(s) < 2 THEN << >>
    ELSE [j \in 1..(Len(s) - 1) |-> <<s[1], s[j + 1]>>] \o PairsOf(Tail(s))

---------------------------------------------------------------------------
(* bear_call_spread *)

\* at-the-money taken as out-of-the-money
CallIsOtm_Inclusive(instrument) ==
    instrument.strike_price >= instrument.underlying_spot_price

CallIsOtm(instrument) ==
    instrument.strike_price > instrument.underlying_spot_price

CallHasValidMarketData(instrument, p) ==
    LET md == MarketDataOf(instrument.call_options)
    IN  IF IsSome(md) THEN QuoteOk(Unwrap(md), p.bid_ask_spread) ELSE FALSE

CallOtmStrikes(instruments, p) ==
    SelectSeq(instruments,
              LAMBDA i : CallIsOtm(i) /\ CallHasValidMarketData(i, p))

CallSortedOtmStrikes(otm) ==
    StableSortBy(otm, [k \in 1..Len(otm) |-> otm[k].strike_price])

CallCreditSpreadPairs(sorted) == PairsOf(sorted)

CallCreditSpread(lower, higher) ==
    LET lower_ltp == LtpOrZero(lower.call_options)
        higher_ltp == LtpOrZero(higher.call_options)
        spread == (higher.strike_price - lower.strike_price) * NIFTY_LOTSIZE
        net_credit == (lower_ltp - higher_ltp) * NIFTY_LOTSIZE
        max_profit == Ceil(net_credit)
        max_loss == MaxLoss(spread, net_credit)
        breakeven == Ceil(lower.strike_price + (net_credit \div NIFTY_LOTSIZE))
    IN  [sell_strike |-> lower.strike_price,
         buy_strike |-> higher.strike_price,
         spread |-> spread,
         net_credit |-> net_credit,
         max_profit |-> max_profit,
         max_loss |-> max_loss,
         breakeven |-> breakeven,
         breakeven_percentage |->
             BreakevenPercentageTrimmed(breakeven, lower.underlying_spot_price),
         type_ |-> "CE"]

CallCreditSpreads(pairs, p) ==
    SortAndRetain([k \in 1..Len(pairs) |->
                     CallCreditSpread(pairs[k][1], pairs[k][2])], p)

---------------------------------------------------------------------------
(* bull_put_spread *)

PutIsOtm(instrument) ==
    instrument.strike_price < instrument.underlying_spot_price

PutHasValidMarketData(instrument, p) ==
    LET md == MarketDataOf(instrument.put_options)
    IN  IF IsSome(md) THEN QuoteOk(Unwrap(md), p.bid_ask_spread) ELSE FALSE

PutOtmStrikes(instruments, p) ==
    SelectSeq(instruments,
              LAMBDA i : PutIsOtm(i) /\ PutHasValidMarketData(i, p))

PutSortedOtmStrikes(otm) ==
    StableSortBy(otm, [k \in 1..Len(otm) |-> -otm[k].strike_price])

PutCreditSpreadPairs(sorted) == PairsOf(sorted)

PutCreditSpread(higher, lower) ==
    LET higher_ltp == LtpOrZero(higher.put_options)
        lower_ltp == LtpOrZero(lower.put_options)
        spread == (higher.strike_price - lower.strike_price) * NIFTY_LOTSIZE
        net_credit == (higher_ltp - lower_ltp) * NIFTY_LOTSIZE
        max_profit == Ceil(net_credit)
        max_loss == MaxLoss(spread, net_credit)
        breakeven == Ceil(lower.strike_price - (net_credit \div NIFTY_LOTSIZE))
    IN  [sell_strike |-> higher.strike_price,
         buy_strike |-> lower.strike_price,
         spread |-> spread,
         net_credit |-> net_credit,
         max_profit |-> max_profit,
         max_loss |-> max_loss,
         breakeven |-> breakeven,
         breakeven_percentage |->
             BreakevenPercentageTrimmed(breakeven, lower.underlying_spot_price),
         type_ |-> "PE"]

PutCreditSpreads(pairs, p) ==
    SortAndRetain([k \in 1..Len(pairs) |->
                     PutCreditSpread(pairs[k][1], pairs[k][2])], p)

---------------------------------------------------------------------------
(* The returned String *)

Failure(message) == [text |-> message, credit_spreads |-> << >>]
\* serde_json::to_string(&credit_spreads)
ToString(credit_spreads) == [text |-> "json", credit_spreads |-> credit_spreads]

NoLocals ==
    /\ otm_strikes' = << >>
    /\ sorted_otm_strikes' = << >>
    /\ credit_spread_pairs' = << >>

bear_call_spread ==
    /\ called = "none"
    /\ called' = "bear_call_spread"
    /\ UNCHANGED params
    /\ LET decoded == FromValue(params) IN
       IF ~decoded.ok
       THEN returned' = Failure("Failed to parse parameters") /\ NoLocals
       ELSE LET p == decoded.value
                parsed == FromStr(p.optionchain)
            IN  IF ~parsed.ok
                THEN returned' = Failure("Failed to parse JSON") /\ NoLocals
                ELSE /\ otm_strikes' = CallOtmStrikes(parsed.value, p)
                     /\ sorted_otm_strikes' = CallSortedOtmStrikes(otm_strikes')
                     /\ credit_spread_pairs' =
                            CallCreditSpreadPairs(sorted_otm_strikes')
                     /\ returned' =
                            ToString(CallCreditSpreads(credit_spread_pairs', p))

bull_put_spread ==
    /\ called = "none"
    /\ called' = "bull_put_spread"
    /\ UNCHANGED params
    /\ LET decoded == FromValue(params) IN
       IF ~decoded.ok
       THEN returned' = Failure("Failed to parse parameters") /\ NoLocals
       ELSE LET p == decoded.value
                parsed == FromStr(p.optionchain)
            IN  IF ~parsed.ok
                THEN returned' = Failure("Failed to parse JSON") /\ NoLocals
                ELSE /\ otm_strikes' = PutOtmStrikes(parsed.value, p)
                     /\ sorted_otm_strikes' = PutSortedOtmStrikes(otm_strikes')
                     /\ credit_spread_pairs' =
                            PutCreditSpreadPairs(sorted_otm_strikes')
                     /\ returned' =
                            ToString(PutCreditSpreads(credit_spread_pairs', p))

Next == bear_call_spread \/ bull_put_spread

---------------------------------------------------------------------------
(* Inputs *)

MaxChain == 4
MaxQuoteChain == 2

SeqUpTo(S, n) == UNION {[1..k -> S] : k \in 0..n}

Market(ltp, bid, ask) == [ltp |-> ltp, bid_price |-> bid, ask_price |-> ask]
Leg(market_data) == Some([market_data |-> market_data])
Quoted(ltp, bid, ask) == Leg(Some(Market(Some(ltp), Some(bid), Some(ask))))
Entry(strike, spot, call, put) ==
    [strike_price |-> strike, underlying_spot_price |-> spot,
     call_options |-> call, put_options |-> put]

Params(optionchain, bas, rr, bps) ==
    [well_formed |-> TRUE, optionchain |-> optionchain, bid_ask_spread |-> bas,
     risk_reward_ratio |-> rr, breakeven_percentage_sort |-> bps]
\* a JsValue that from_value rejects
BadParams ==
    [well_formed |-> FALSE, optionchain |-> << >>, bid_ask_spread |-> FALSE,
     risk_reward_ratio |-> FALSE, breakeven_percentage_sort |-> FALSE]

InitLocals ==
    /\ called = "none"
    /\ otm_strikes = << >>
    /\ sorted_otm_strikes = << >>
    /\ credit_spread_pairs = << >>
    /\ returned = [text |-> "none", credit_spreads |-> << >>]

\* Chains for the pairing, scoring, sorting and risk/reward stages: one
\* spot for the chain and strikes on both sides of it, each quoted on its
\* out-of-the-money side.  Strike 100 carries both legs: it is at the
\* money when the spot is 100 and an OTM put when the spot is 104.
\* Prices are quarter units: 12 is 3.00, 5 is 1.25.  The legs of strikes
\* 115 and 90 have ask - bid = 2.25.
Spots == {Whole(100), Whole(104)}
ScoreEntries(spot) ==
    { Entry(Some(Whole(100)), spot, Quoted(20, 19, 21), Quoted(12, 11, 13)),
      Entry(Some(Whole(105)), spot, Quoted(12, 11, 13), None),
      Entry(Some(Whole(110)), spot, Quoted(4, 3, 5), None),
      Entry(Some(Whole(115)), spot, Quoted(5, 1, 10), None),
      Entry(Some(Whole(95)), spot, None, Quoted(4, 3, 5)),
      Entry(Some(Whole(90)), spot, None, Quoted(5, 1, 10)) }

Init ==
    /\ InitLocals
    /\ \E spot \in Spots :
       \E chain \in SeqUpTo(ScoreEntries(spot), MaxChain) :
       \E bas \in BOOLEAN, rr \in BOOLEAN, bps \in BOOLEAN :
          params = Params(chain, bas, rr, bps)

Spec == Init /\ [][Next]_vars

---------------------------------------------------------------------------
(* Chains for the decoding and filtering stages: spot 100, a call-side     *)
(* strike (105) whose call leg varies, a put-side strike (95) whose put    *)
(* leg varies, an at-the-money strike, and an object without strike_price. *)
(* The leg of the other side is always well quoted, so a filter reading    *)
(* the wrong leg shows.                                                    *)

LegVariants ==
    { None,                                        \* no leg
      Leg(None),                                   \* no market snapshot
      Leg(Some(Market(None, Some(4), Some(12)))),  \* no LTP
      Leg(Some(Market(Some(0), Some(4), Some(12)))),   \* LTP 0, ask - bid = 2.00
      Leg(Some(Market(Some(8), None, Some(12)))),  \* no bid
      Leg(Some(Market(Some(8), Some(4), None))),   \* no ask
      Leg(Some(Market(Some(8), None, None))),      \* neither
      Leg(Some(Market(Some(8), Some(4), Some(13)))),   \* ask - bid = 2.25
      Leg(Some(Market(Some(8), Some(13), Some(4)))),   \* ask - bid = -2.25
      Leg(Some(Market(Some(8), Some(12), Some(13)))) } \* ask - bid = 0.25

QuoteEntries ==
    { Entry(Some(Whole(105)), Whole(100), leg, Quoted(32, 31, 33)) :
          leg \in LegVariants }
    \cup { Entry(Some(Whole(95)), Whole(100), Quoted(30, 29, 31), leg) :
          leg \in LegVariants }
    \cup { Entry(Some(Whole(100)), Whole(100),
                 Quoted(20, 19, 21), Quoted(18, 17, 19)),
           Entry(None, Whole(100), Quoted(12, 11, 13), Quoted(12, 11, 13)) }

InitQuotes ==
    /\ InitLocals
    /\ \/ params = BadParams
       \/ \E chain \in SeqUpTo(QuoteEntries, MaxQuoteChain) :
          \E bas \in BOOLEAN, rr \in BOOLEAN, bps \in BOOLEAN :
             params = Params(chain, bas, rr, bps)

SpecQuotes == InitQuotes /\ [][Next]_vars

---------------------------------------------------------------------------
(* Vocabulary of the properties *)

Returned == called # "none"
ReturnedSpreads == returned.text = "json"
Spreads == returned.credit_spreads
Chain == params.optionchain
Decodable == \A i \in 1..Len(Chain) : IsSome(Chain[i].strike_price)
Range(seq) == {seq[i] : i \in 1..Len(seq)}
IsCall == called = "bear_call_spread"
IsPut == called = "bull_put_spread"

Flags == FromValue(params).value
Instruments == FromStr(Chain).value
Pairs == Range(credit_spread_pairs)

\* the spreads the called function returns for the same chain and the same
\* bid_ask_spread when the other two flags are set to rr and bps: neither
\* flag is read before the pairs are formed, so the pairs are the same
RunWith(rr, bps) ==
    LET p == [Flags EXCEPT !.risk_reward_ratio = rr,
                           !.breakeven_percentage_sort = bps]
    IN  IF IsCall
        THEN CallCreditSpreads(credit_spread_pairs, p)
        ELSE PutCreditSpreads(credit_spread_pairs, p)

\* the leg of an entry on the side of the called function
SideLeg(e) == IF IsCall THEN e.call_options ELSE e.put_options
QuotedLtp(e) == Unwrap(Unwrap(Unwrap(SideLeg(e)).market_data).ltp)

\* the least whole number not below x, and the reference scoring of a
\* (sell, buy) pair as the specification states it
RefCeil(x) == x + ((-x) % Whole(1))
RefScore(sell, buy) ==
    LET width == Abs(buy.strike_price - sell.strike_price) * 25
        credit == (QuotedLtp(sell) - QuotedLtp(buy)) * 25
        perUnit == QuotedLtp(sell) - QuotedLtp(buy)
        breakeven == IF IsCall THEN RefCeil(sell.strike_price + perUnit)
                     ELSE RefCeil(buy.strike_price - perUnit)
        spot == sell.underlying_spot_price
    IN  [sell_strike |-> sell.strike_price,
         buy_strike |-> buy.strike_price,
         spread |-> width,
         net_credit |-> credit,
         max_profit |-> RefCeil(credit),
         max_loss |-> RefCeil(width - credit),
         breakeven |-> breakeven,
         breakeven_percentage |-> (Abs(breakeven - spot) * 10000) \div spot,
         type_ |-> IF IsCall THEN "CE" ELSE "PE"]
RefRiskReward(s) == s.max_loss <= 3 * s.max_profit
GenerationOrder ==
    [k \in 1..Len(credit_spread_pairs) |->
        RefScore(credit_spread_pairs[k][1], credit_spread_pairs[k][2])]

---------------------------------------------------------------------------
\* C1: an entry whose strike equals its spot is never the sell or buy leg
\* of a returned spread: the call filter keeps only strikes strictly above
\* spot, the put filter only strikes strictly below, every pair is made of
\* kept entries and every returned spread is the spread of such a pair.
C1_AtTheMoneyNeverALeg ==
    ReturnedSpreads =>
      LET kept == Range(otm_strikes) IN
      /\ \A e \in kept :
            /\ IsCall => e.strike_price > e.underlying_spot_price
            /\ IsPut => e.strike_price < e.underlying_spot_price
      /\ \A pr \in Pairs : pr[1] \in kept /\ pr[2] \in kept
      /\ \A s \in Range(Spreads) : \E pr \in Pairs :
            /\ s.sell_strike = pr[1].strike_price
            /\ s.buy_strike = pr[2].strike_price
            /\ pr[1].strike_price # pr[1].underlying_spot_price
            /\ pr[2].strike_price # pr[2].underlying_spot_price

\* a chain holding a quoted at-the-money entry, for which spreads are returned
C1_Witness ==
    /\ ReturnedSpreads
    /\ Len(Spreads) > 0
    /\ \E i \in 1..Len(Chain) :
          Chain[i].strike_price = Some(Chain[i].underlying_spot_price)

\* the conditions of the filter as the specification states them (8 is 2.00)
C2_LegPresent(e) ==
    /\ IsSome(SideLeg(e))
    /\ IsSome(Unwrap(SideLeg(e)).market_data)
    /\ IsSome(Unwrap(Unwrap(SideLeg(e)).market_data).ltp)
C2_Liquid(e) ==
    LET m == Unwrap(Unwrap(SideLeg(e)).market_data)
    IN  /\ IsSome(m.bid_price)
        /\ IsSome(m.ask_price)
        /\ Unwrap(m.ask_price) - Unwrap(m.bid_price) <= 8
        /\ Unwrap(m.bid_price) - Unwrap(m.ask_price) <= 8
C2_Otm(e) ==
    IF IsCall THEN e.strike_price > e.underlying_spot_price
    ELSE e.strike_price < e.underlying_spot_price
\* C2: an OTM entry passes the filter iff its leg for the side exists, has
\* a market snapshot and an LTP (zero counts), and, when bid_ask_spread is
\* set, bid and ask are both present with |ask - bid| <= 2.0.
C2_FilterIff ==
    ReturnedSpreads =>
      otm_strikes =
        SelectSeq(Instruments,
                  LAMBDA e : /\ C2_Otm(e)
                             /\ C2_LegPresent(e)
                             /\ (Flags.bid_ask_spread => C2_Liquid(e)))

\* with the flag set, an entry with LTP 0 and ask - bid = 2.0 is kept while
\* the other entry of the chain is rejected
C2_Witness ==
    /\ ReturnedSpreads
    /\ Flags.bid_ask_spread
    /\ Len(Chain) = 2
    /\ Len(otm_strikes) = 1
    /\ QuotedLtp(otm_strikes[1]) = 0

\* C9: a chain that cannot be decoded (an entry without strikePrice) yields
\* the failure outcome and no spread at all; absent optional data never
\* yields the failure outcome.
C9_FailureOnlyWhenUndecodable ==
    (Returned /\ params.well_formed) =>
      /\ ~Decodable =>
            /\ returned.text = "Failed to parse JSON"
            /\ Spreads = << >>
            /\ credit_spread_pairs = << >>
      /\ Decodable => returned.text = "json"

\* two entries, one without strikePrice and one well formed: failure
C9_Witness ==
    /\ Returned
    /\ params.well_formed
    /\ Len(Chain) = 2
    /\ \E i, j \in 1..2 : /\ ~IsSome(Chain[i].strike_price)
                          /\ IsSome(Chain[j].strike_price)
    /\ returned.text = "Failed to parse JSON"

---------------------------------------------------------------------------
\* C3: with risk_reward_ratio and breakeven_percentage_sort clear, n kept
\* entries yield n*(n-1)/2 spreads, one per pair, in generation order: for
\* calls ascending sell strike and, within one sell strike, ascending buy
\* strike; for puts descending sell strike and, within one sell strike,
\* descending buy strike.
C3_AllPairsInGenerationOrder ==
    (ReturnedSpreads /\ ~Flags.risk_reward_ratio
                     /\ ~Flags.breakeven_percentage_sort) =>
      LET n == Len(otm_strikes) IN
      /\ 2 * Len(Spreads) = n * (n - 1)
      /\ \A k, l \in 1..Len(Spreads) : k < l =>
            /\ IsCall =>
                  \/ Spreads[k].sell_strike < Spreads[l].sell_strike
                  \/ /\ Spreads[k].sell_strike = Spreads[l].sell_strike
                     /\ Spreads[k].buy_strike <= Spreads[l].buy_strike
            /\ IsPut =>
                  \/ Spreads[k].sell_strike > Spreads[l].sell_strike
                  \/ /\ Spreads[k].sell_strike = Spreads[l].sell_strike
                     /\ Spreads[k].buy_strike >= Spreads[l].buy_strike

\* C4: in every returned spread the sell strike is strictly nearer the
\* money than the buy strike: below it for calls, above it for puts.
C4_SellStrictlyNearer ==
    ReturnedSpreads =>
      \A s \in Range(Spreads) :
         /\ IsCall => s.sell_strike < s.buy_strike
         /\ IsPut => s.sell_strike > s.buy_strike

\* C5 as claimed: maxProfit + maxLoss == spreadWidth for every spread.
C5_SumIsWidthExactly ==
    ReturnedSpreads =>
      \A s \in Range(Spreads) : s.max_profit + s.max_loss = s.spread

\* C5 as amended: maxProfit + maxLoss is spreadWidth or spreadWidth + 1,
\* and is spreadWidth whenever netCredit is a whole number.
C5_SumWithinOneOfWidth ==
    ReturnedSpreads =>
      \A s \in Range(Spreads) :
         /\ s.spread <= s.max_profit + s.max_loss
         /\ s.max_profit + s.max_loss <= s.spread + Whole(1)
         /\ s.net_credit % Whole(1) = 0 =>
               s.max_profit + s.max_loss = s.spread

\* a returned spread whose net credit has a fractional part and whose
\* profit and loss sum to the width plus one
C5_Witness ==
    /\ ReturnedSpreads
    /\ \E s \in Range(Spreads) :
          /\ s.net_credit % Whole(1) # 0
          /\ s.max_profit + s.max_loss = s.spread + Whole(1)

\* the end-to-end example of the specification
C6_ExampleChain ==
    << Entry(Some(Whole(105)), Whole(100), Quoted(12, 11, 13), None),
       Entry(Some(Whole(110)), Whole(100), Quoted(4, 3, 5), None) >>
C6_ExampleSpread ==
    [sell_strike |-> Whole(105), buy_strike |-> Whole(110),
     spread |-> Whole(125), net_credit |-> Whole(50),
     max_profit |-> Whole(50), max_loss |-> Whole(75),
     breakeven |-> Whole(107), breakeven_percentage |-> 700, type_ |-> "CE"]
\* C6: every returned spread is the reference scoring of its pair (lot size
\* 25, ceilings for profit, loss and breakeven, the distance truncated to
\* two decimals and never rounded up); with both result flags clear the
\* spreads are the scored pairs one for one; and the chain with spot 100 and
\* calls 105 (LTP 3.0), 110 (LTP 1.0) yields exactly sell 105, buy 110,
\* width 125, credit 50, profit 50, loss 75, breakeven 107, distance 7.00.
C6_ReferenceScoring ==
    ReturnedSpreads =>
      /\ \A s \in Range(Spreads) :
            /\ \E pr \in Pairs : s = RefScore(pr[1], pr[2])
            /\ LET spot == Chain[1].underlying_spot_price
                   gap == Abs(s.breakeven - spot) * 10000
               IN  /\ s.breakeven_percentage * spot <= gap
                   /\ gap < (s.breakeven_percentage + 1) * spot
      /\ (~Flags.risk_reward_ratio /\ ~Flags.breakeven_percentage_sort) =>
            Spreads = GenerationOrder
      /\ (/\ IsCall
          /\ Chain = C6_ExampleChain
          /\ ~Flags.bid_ask_spread
          /\ ~Flags.risk_reward_ratio
          /\ ~Flags.breakeven_percentage_sort) =>
            Spreads = << C6_ExampleSpread >>

\* a returned spread whose distance loses more than half a hundredth to the
\* truncation: rounding to nearest would have given the next hundredth
C6_Witness ==
    /\ ReturnedSpreads
    /\ \E s \in Range(Spreads) :
          LET spot == Chain[1].underlying_spot_price
              gap == Abs(s.breakeven - spot) * 10000
          IN  2 * (gap - s.breakeven_percentage * spot) >= spot

\* C7: the result with risk_reward_ratio set is the subsequence, in
\* unchanged order, of the result with it clear (same chain, same other
\* flags) made of the spreads with maxLoss <= 3 * maxProfit.
C7_RiskRewardIsSubsequence ==
    ReturnedSpreads =>
      LET bps == Flags.breakeven_percentage_sort IN
      IF Flags.risk_reward_ratio
      THEN Spreads = SelectSeq(RunWith(FALSE, bps), RefRiskReward)
      ELSE RunWith(TRUE, bps) = SelectSeq(Spreads, RefRiskReward)

\* both flags set, the sort changes the order, and the filter removes some
\* spreads and keeps others
C7_Witness ==
    /\ ReturnedSpreads
    /\ Flags.risk_reward_ratio
    /\ Flags.breakeven_percentage_sort
    /\ RunWith(FALSE, TRUE) # RunWith(FALSE, FALSE)
    /\ Len(Spreads) > 0
    /\ Len(Spreads) < Len(RunWith(FALSE, TRUE))

\* the distances a sequence holds, and its spreads of one distance
C8_KeysOf(seq) == {seq[k].breakeven_percentage : k \in 1..Len(seq)}
C8_WithKey(seq, v) == SelectSeq(seq, LAMBDA s : s.breakeven_percentage = v)
\* C8: with breakeven_percentage_sort set the returned sequence is
\* non-increasing in breakevenDistancePercent and, for every distance
\* value, holds the spreads of that distance in the order the result with
\* the flag clear holds them (a stable permutation); with the flag clear
\* the spreads are in generation order.
C8_StableDescendingSort ==
    ReturnedSpreads =>
      LET rr == Flags.risk_reward_ratio
          unsorted == RunWith(rr, FALSE)
      IN
      /\ Flags.breakeven_percentage_sort =>
            /\ \A k \in 1..(Len(Spreads) - 1) :
                  Spreads[k].breakeven_percentage
                     >= Spreads[k + 1].breakeven_percentage
            /\ Len(Spreads) = Len(unsorted)
            /\ \A v \in C8_KeysOf(Spreads) \cup C8_KeysOf(unsorted) :
                  C8_WithKey(Spreads, v) = C8_WithKey(unsorted, v)
      /\ ~Flags.breakeven_percentage_sort =>
            Spreads = IF rr THEN SelectSeq(GenerationOrder, RefRiskReward)
                      ELSE GenerationOrder

\* the flag is set, the sort reorders the spreads, and two different
\* spreads of equal distance are among them
C8_Witness ==
    /\ ReturnedSpreads
    /\ Flags.breakeven_percentage_sort
    /\ Spreads # RunWith(Flags.risk_reward_ratio, FALSE)
    /\ \E k, l \in 1..Len(Spreads) :
          /\ k < l
          /\ Spreads[k] # Spreads[l]
          /\ Spreads[k].breakeven_percentage = Spreads[l].breakeven_percentage

\* C10: with risk_reward_ratio set, every returned spread whose sell and
\* buy strikes differ has netCredit > 0 and maxProfit >= 1.
C10_PositiveCreditUnderRiskReward ==
    (ReturnedSpreads /\ Flags.risk_reward_ratio) =>
      \A s \in Range(Spreads) :
         s.sell_strike # s.buy_strike =>
            s.net_credit > 0 /\ s.max_profit >= Whole(1)

\* the flag is set, a pair of different strikes without positive credit was
\* generated, and a spread of different strikes is returned
C10_Witness ==
    /\ ReturnedSpreads
    /\ Flags.risk_reward_ratio
    /\ \E pr \in Pairs :
          /\ pr[1].strike_price # pr[2].strike_price
          /\ QuotedLtp(pr[1]) <= QuotedLtp(pr[2])
    /\ \E s \in Range(Spreads) : s.sell_strike # s.buy_strike

=============================================================================
